---- MODULE Spec2Model ----
(***************************************************************************)
(* Model of the WhatsApp bulk-messaging dashboard backend                  *)
(* (src/backend/server.js, lines 170-426, with the Contact schema of       *)
(* src/backend/models/Contact.js).                                         *)
(*                                                                         *)
(* Strings are sequences of one-character strings, so that trim, the       *)
(* E.164 pattern, the name ordering of the list route and JSON.parse are   *)
(* computed character by character.                                       *)
(***************************************************************************)
EXTENDS Integers, Sequences, FiniteSets, TLC

(***************************************************************************)
(* Bounds of the model.                                                    *)
(***************************************************************************)
\* number of contact requests (create / list / delete) that are ever issued
MaxReq == 3

(***************************************************************************)
(* Characters.                                                             *)
(***************************************************************************)
\* the ASCII characters of codes 32 to 95, in code order
Printable ==
  << " ", "!", "\"", "#", "$", "%", "&", "'", "(", ")", "*", "+", ",", "-", ".", "/",
     "0", "1", "2", "3", "4", "5", "6", "7", "8", "9", ":", ";", "<", "=", ">", "?",
     "@", "A", "B", "C", "D", "E", "F", "G", "H", "I", "J", "K", "L", "M", "N", "O",
     "P", "Q", "R", "S", "T", "U", "V", "W", "X", "Y", "Z", "[", "\\", "]", "^", "_" >>

\* the characters from code 97 on
Lower ==
  << "a", "b", "c", "d", "e", "f", "g", "h", "i", "j", "k", "l", "m", "n", "o",
     "p", "q", "r", "s", "t", "u", "v", "w", "x", "y", "z", "{", "|", "}", "~" >>

\* the code unit of a character (tab and newline are the two control
\* characters the model uses)
Code(c) ==
  IF c = "\t" THEN 9
  ELSE IF c = "\n" THEN 10
  ELSE IF \E i \in 1..Len(Lower) : Lower[i] = c
       THEN 96 + (CHOOSE i \in 1..Len(Lower) : Lower[i] = c)
       ELSE 31 + (CHOOSE i \in 1..Len(Printable) : Printable[i] = c)

\* the characters String.prototype.trim strips (the ASCII ones)
IsWhiteSpace(c) == c \in {" ", "\t", "\n"}

\* the value of a field the request does not carry
Undefined == << "undefined" >>

\* \d of a JavaScript regular expression
IsDigit(c) == c \in {"0", "1", "2", "3", "4", "5", "6", "7", "8", "9"}

(***************************************************************************)
(* The Contact schema (models/Contact.js).                                 *)
(***************************************************************************)
RECURSIVE TrimStart(_)
TrimStart(s) ==
  IF s # << >> /\ IsWhiteSpace(Head(s)) THEN TrimStart(Tail(s)) ELSE s

RECURSIVE TrimEnd(_)
TrimEnd(s) ==
  IF s # << >> /\ IsWhiteSpace(s[Len(s)])
  THEN TrimEnd(SubSeq(s, 1, Len(s) - 1))
  ELSE s

\* mutant: only the leading white space is stripped
TrimLeft(s) == TrimStart(s)

\* the `trim: true` setter of the name path: String.prototype.trim
Trim(s) == TrimEnd(TrimStart(s))

\* the quantifier {1,14} of the phone pattern
MinMoreDigits == 1
MaxMoreDigits == 14

\* mutant: the pattern /^\+\d{2,15}/, which takes a leading zero and any tail
MatchLoose(p) ==
  /\ Len(p) >= 3
  /\ p[1] = "+"
  /\ IsDigit(p[2]) /\ IsDigit(p[3])

\* /^\+[1-9]\d{1,14}$/.test(p): a plus sign, a digit 1-9, then 1 to 14 digits
MatchE164(p) ==
  /\ Len(p) >= 2 + MinMoreDigits
  /\ Len(p) <= 2 + MaxMoreDigits
  /\ p[1] = "+"
  /\ IsDigit(p[2]) /\ p[2] # "0"
  /\ \A i \in 3..Len(p) : IsDigit(p[i])

\* mutant: the path is not required
NotRequired(v) == TRUE

\* the `required` validator of a String path: a missing field and the
\* empty string both fail it
CheckRequired(v) == v # Undefined /\ Len(v) > 0

MsgNameRequired == "Please provide a name"
MsgPhoneRequired == "Please provide a phone number"
MsgPhoneFormat == "Please provide a valid phone number in E.164 format"

\* the validators of the name path, run on the trimmed value
NameErrors(name) ==
  IF CheckRequired(name) THEN << >> ELSE << MsgNameRequired >>

\* the validators of the phone path: required, then match (which skips the
\* empty string)
PhoneErrors(phone) ==
  IF ~CheckRequired(phone) THEN << MsgPhoneRequired >>
  ELSE IF ~MatchE164(phone) THEN << MsgPhoneFormat >>
  ELSE << >>

\* err.errors of the ValidationError that save() raises, in schema order;
\* empty when the document is valid
ValidationErrors(doc) == NameErrors(doc.name) \o PhoneErrors(doc.phone)

\* new Contact({name, phone}): the name setter trims
NewContact(name, phone) == [name |-> Trim(name), phone |-> phone]

(***************************************************************************)
(* State.                                                                  *)
(***************************************************************************)
VARIABLES
  storeUp,    \* whether MONGO_URI is set and a connection to the database can be made
  storeLost,  \* the connection cached.conn holds has been lost since
  contacts,   \* the contacts collection: a set of documents
  nextId,     \* the next _id the store assigns
  req,        \* the contact requests, by request number
  clock,      \* history: counts the arrivals and the responses so far
  bulk,       \* the bulk-send requests, by request number
  envVerifyToken,  \* process.env.WEBHOOK_VERIFY_TOKEN
  hooks,      \* the webhook verification requests handled so far
  apiKey,     \* process.env.API_KEY
  gen,        \* the content-suggestion requests, by request number
  providerCalls, \* history: the requests generateContent was called for, in order
  mongoUri,   \* whether process.env.MONGO_URI is set
  cachedConn, \* cached.conn: whether a connection is cached
  cachedPromise, \* cached.promise: the number of the attempt it holds, or NoAttempt
  attempts,   \* the connection attempts started so far: how each stands
  callers,    \* the calls of connectToDatabase, by call number
  microtasks, \* the continuations that are ready to run, in order
  server,     \* the ids of the contacts the backend holds, as the dashboard's calls find it
  serverNext, \* the id the backend gives the next contact
  fetchPc,    \* the dashboard's initial fetch: "pending" or "done"
  isLoading,  \* DashboardPage state
  error,      \* DashboardPage state: a message, or NoError
  shown,      \* DashboardPage state contacts: the ids displayed, in order
  ops,        \* the add and delete calls of the dashboard, by call number
  hasMessage, \* MessageComposer: the form holds non-blank content or a media file
  isSending,  \* MessageComposer state
  sendStatus, \* MessageComposer state: the status shown, and the attempt that set it
  sends,      \* the send attempts of the composer, by attempt number
  timers      \* the attempts whose setTimeout is pending, oldest first

cvars == << storeUp, storeLost, contacts, nextId, req, clock >>
bvars == << bulk >>
hvars == << envVerifyToken, hooks >>
avars == << apiKey, gen, providerCalls >>
nvars == << mongoUri, cachedConn, cachedPromise, attempts, callers, microtasks >>
dvars == << server, serverNext, fetchPc, isLoading, error, shown, ops >>

\* the variables of the routes other than the contact and bulk-send routes
mvars == << hasMessage, isSending, sendStatus, sends, timers >>
xvars == << hvars, avars, nvars, dvars, mvars >>

Reqs == 1..MaxReq

\* a value of req.params.id that is no ObjectId
BadId == 0

\* mongoose.Types.ObjectId.isValid(id)
\* a router that takes every id for well formed
AnyIdValid(id) == TRUE

IsValidObjectId(id) == id # BadId

\* the ids a delete request may carry
IdParams == BadId..(MaxReq - 1)

\* request bodies of POST /api/contacts
Zoe == << "Z", "o", "e" >>
AmyPadded == << " ", "A", "m", "y", "\t" >>
BlankName == << " ", " " >>

Phone12 == << "+", "1", "2" >>
Phone905 == << "+", "9", "0", "5" >>
PhoneLeadingZero == << "+", "0", "1", "2" >>
PhoneTrailingSpace == << "+", "1", "2", " " >>
PhoneLeadingSpace == << " ", "+", "1", "2" >>
PhoneNoPlus == << "1", "2" >>
PhoneOneDigit == << "+", "1" >>

ValidBodies ==
  { [ name |-> Zoe, phone |-> Phone12 ],
    [ name |-> AmyPadded, phone |-> Phone12 ],
    [ name |-> AmyPadded, phone |-> Phone905 ] }
BlankNameBodies ==
  [ name : { BlankName }, phone : { Phone12 } ]
BadPhoneBodies ==
  [ name : { Zoe },
    phone : { PhoneLeadingZero, PhoneTrailingSpace, PhoneLeadingSpace, PhoneNoPlus,
              PhoneOneDigit } ]
CreateBodies == ValidBodies \cup BlankNameBodies \cup BadPhoneBodies

\* bodies with a missing, empty or whitespace-only field
Empty == << >>
PhoneSpace == << " " >>
BlankFieldBodies ==
  { [ name |-> Undefined, phone |-> Phone12 ],
    [ name |-> Empty, phone |-> Phone12 ],
    [ name |-> Zoe, phone |-> Undefined ],
    [ name |-> Zoe, phone |-> Empty ],
    [ name |-> Zoe, phone |-> PhoneSpace ],
    [ name |-> Undefined, phone |-> Empty ],
    [ name |-> BlankName, phone |-> PhoneSpace ] }

NoRequest ==
  [ op |-> "none", name |-> << >>, phone |-> << >>, id |-> BadId, pc |-> "idle",
    status |-> 0, msgs |-> << >>, body |-> << >>, issued |-> 0, doneAt |-> 0 ]

\* the request slot the next arriving request takes
NextReq(r) == req[r].pc = "idle" /\ \A q \in 1..(r - 1) : req[q].pc # "idle"

Respond(q, status, msgs, body) ==
  [ q EXCEPT !.pc = "done", !.status = status, !.msgs = msgs, !.body = body,
             !.doneAt = clock + 1 ]

(***************************************************************************)
(* The store.                                                              *)
(***************************************************************************)
\* connectToDatabase() returns a connection (TRUE) or throws (FALSE)
\* a connectToDatabase that never throws
AlwaysConnected == TRUE

ConnectToDatabase == storeUp

\* mutant: the collection has no unique index
NoUniqueIndex(coll, phone) == FALSE

\* the unique index on phone: E11000 when a document has that phone
DuplicateKey(coll, phone) == \E d \in coll : d.phone = phone

\* { id: _id.toString(), ...rest }
TransformContact(d) == [ id |-> d._id, name |-> d.name, phone |-> d.phone ]

\* mutant: the document is found but not removed
DeleteNothing(coll, id) == coll

\* the collection after findByIdAndDelete(id)
DeleteById(coll, id) == { d \in coll : d._id # id }

\* the order of { name: 1 }: strings compared code unit by code unit
RECURSIVE StrLessEq(_, _)
StrLessEq(a, b) ==
  IF a = << >> THEN TRUE
  ELSE IF b = << >> THEN FALSE
  ELSE IF Head(a) = Head(b) THEN StrLessEq(Tail(a), Tail(b))
  ELSE Code(Head(a)) < Code(Head(b))

\* mutant: find() without the sort
FindUnsorted(coll) ==
  LET n == Cardinality(coll)
  IN  { s \in [1..n -> coll] : \A i, j \in 1..n : i # j => s[i] # s[j] }

\* the results Contact.find().sort({ name: 1 }) can give: every document
\* once, names ascending, documents of equal name in any order
FindSorted(coll) ==
  LET n == Cardinality(coll)
  IN  { s \in [1..n -> coll] :
          /\ \A i, j \in 1..n : i # j => s[i] # s[j]
          /\ \A i, j \in 1..n : i < j => StrLessEq(s[i].name, s[j].name) }

\* contacts.map(transformContact)
TransformAll(found) == [ i \in 1..Len(found) |-> TransformContact(found[i]) ]

(***************************************************************************)
(* POST /api/contacts                                                      *)
(***************************************************************************)
MsgCreateFailed == "Server Error: Could not create contact."
MsgDuplicate == "Phone number already exists."

\* the request arrives; connectToDatabase, new Contact and the validation
\* of save() run
CreateArrive(r, name, phone) ==
  /\ NextReq(r)
  /\ LET q == [ NoRequest EXCEPT !.op = "create", !.name = name, !.phone = phone,
                                 !.issued = clock + 1 ]
         doc == NewContact(name, phone)
         errs == ValidationErrors(doc)
     IN  req' = [ req EXCEPT ![r] =
                    IF ~ConnectToDatabase THEN Respond(q, 500, << MsgCreateFailed >>, << >>)
                    ELSE IF errs # << >> THEN Respond(q, 400, errs, << >>)
                    ELSE [ q EXCEPT !.pc = "store" ] ]
  /\ clock' = clock + 1
  /\ UNCHANGED << storeUp, storeLost, contacts, nextId, bulk, xvars >>

\* the insert of save() reaches the store, and the response is sent
CreateInsert(r) ==
  /\ req[r].op = "create" /\ req[r].pc = "store"
  /\ LET doc == NewContact(req[r].name, req[r].phone)
         saved == [ _id |-> nextId, name |-> doc.name, phone |-> doc.phone ]
     IN  IF storeLost
         THEN /\ req' = [ req EXCEPT ![r] = Respond(@, 500, << MsgCreateFailed >>, << >>) ]
              /\ UNCHANGED << contacts, nextId >>
         ELSE IF DuplicateKey(contacts, doc.phone)
         THEN /\ req' = [ req EXCEPT ![r] = Respond(@, 409, << MsgDuplicate >>, << >>) ]
              /\ UNCHANGED << contacts, nextId >>
         ELSE /\ contacts' = contacts \cup { saved }
              /\ nextId' = nextId + 1
              /\ req' = [ req EXCEPT ![r] =
                            Respond(@, 201, << >>, << TransformContact(saved) >>) ]
  /\ clock' = clock + 1
  /\ UNCHANGED << storeUp, storeLost, bulk, xvars >>

(***************************************************************************)
(* GET /api/contacts                                                       *)
(***************************************************************************)
MsgListFailed == "Server Error: Could not fetch contacts."

ListArrive(r) ==
  /\ NextReq(r)
  /\ LET q == [ NoRequest EXCEPT !.op = "list", !.issued = clock + 1 ]
     IN  req' = [ req EXCEPT ![r] =
                    IF ~ConnectToDatabase THEN Respond(q, 500, << MsgListFailed >>, << >>)
                    ELSE [ q EXCEPT !.pc = "store" ] ]
  /\ clock' = clock + 1
  /\ UNCHANGED << storeUp, storeLost, contacts, nextId, bulk, xvars >>

ListFind(r) ==
  /\ req[r].op = "list" /\ req[r].pc = "store"
  /\ IF storeLost
     THEN req' = [ req EXCEPT ![r] = Respond(@, 500, << MsgListFailed >>, << >>) ]
     ELSE \E found \in FindSorted(contacts) :
            req' = [ req EXCEPT ![r] = Respond(@, 200, << >>, TransformAll(found)) ]
  /\ clock' = clock + 1
  /\ UNCHANGED << storeUp, storeLost, contacts, nextId, bulk, xvars >>

(***************************************************************************)
(* DELETE /api/contacts/:id                                                *)
(***************************************************************************)
MsgDeleteFailed == "Server Error: Could not delete contact."
MsgInvalidId == "Invalid contact ID format."
MsgNotFound == "Contact not found."

DeleteArrive(r, id) ==
  /\ NextReq(r)
  /\ LET q == [ NoRequest EXCEPT !.op = "delete", !.id = id, !.issued = clock + 1 ]
     IN  req' = [ req EXCEPT ![r] =
                    IF ~ConnectToDatabase THEN Respond(q, 500, << MsgDeleteFailed >>, << >>)
                    ELSE IF ~IsValidObjectId(id) THEN Respond(q, 400, << MsgInvalidId >>, << >>)
                    ELSE [ q EXCEPT !.pc = "store" ] ]
  /\ clock' = clock + 1
  /\ UNCHANGED << storeUp, storeLost, contacts, nextId, bulk, xvars >>

DeleteFind(r) ==
  /\ req[r].op = "delete" /\ req[r].pc = "store"
  /\ IF storeLost
     THEN /\ req' = [ req EXCEPT ![r] = Respond(@, 500, << MsgDeleteFailed >>, << >>) ]
          /\ UNCHANGED contacts
     ELSE IF \E d \in contacts : d._id = req[r].id
     THEN /\ contacts' = DeleteById(contacts, req[r].id)
          /\ req' = [ req EXCEPT ![r] = Respond(@, 200, << >>, << >>) ]
     ELSE /\ req' = [ req EXCEPT ![r] = Respond(@, 404, << MsgNotFound >>, << >>) ]
          /\ UNCHANGED contacts
  /\ clock' = clock + 1
  /\ UNCHANGED << storeUp, storeLost, nextId, bulk, xvars >>

(***************************************************************************)
(* The store drops out after connectToDatabase has cached a connection:    *)
(* cached.conn is returned as before, and with bufferCommands false the    *)
(* next command on it fails at once.                                       *)
(***************************************************************************)
CachedConn == storeUp /\ \E r \in DOMAIN req : req[r].pc # "idle"

ConnectionLost ==
  /\ CachedConn /\ ~storeLost
  /\ storeLost' = TRUE
  /\ UNCHANGED << storeUp, contacts, nextId, req, clock, bulk, xvars >>

(***************************************************************************)
(* JSON: the text JSON.stringify gives for a recipient list, and           *)
(* JSON.parse for texts without escapes, fractions and exponents.          *)
(***************************************************************************)
Quote == "\""

JsonString(s) == << Quote >> \o s \o << Quote >>

\* JSON.stringify of one recipient { name, phone }
StringifyContact(c) ==
  << "{" >> \o JsonString(<< "n", "a", "m", "e" >>) \o << ":" >> \o JsonString(c.name)
    \o << "," >> \o JsonString(<< "p", "h", "o", "n", "e" >>) \o << ":" >>
    \o JsonString(c.phone) \o << "}" >>

RECURSIVE StringifyItems(_)
StringifyItems(cs) ==
  IF cs = << >> THEN << >>
  ELSE IF Len(cs) = 1 THEN StringifyContact(cs[1])
  ELSE StringifyContact(cs[1]) \o << "," >> \o StringifyItems(Tail(cs))

\* JSON.stringify(payload.contacts)
Stringify(cs) == << "[" >> \o StringifyItems(cs) \o << "]" >>

\* String(v): what JSON.parse makes of its argument before parsing
StringOf(v) ==
  IF v = Undefined THEN << "u", "n", "d", "e", "f", "i", "n", "e", "d" >> ELSE v

JsonFail == [ ok |-> FALSE, v |-> [ t |-> "none" ], i |-> 0 ]
JsonOk(v, i) == [ ok |-> TRUE, v |-> v, i |-> i ]

\* JSON white space
IsJsonSpace(c) == c \in { " ", "\t", "\n" }

RECURSIVE SkipSpace(_, _)
SkipSpace(s, i) ==
  IF i <= Len(s) /\ IsJsonSpace(s[i]) THEN SkipSpace(s, i + 1) ELSE i

\* the literal word at position i
ParseWord(s, i, word, v) ==
  IF i + Len(word) - 1 <= Len(s) /\ SubSeq(s, i, i + Len(word) - 1) = word
  THEN JsonOk(v, i + Len(word))
  ELSE JsonFail

RECURSIVE DigitsEnd(_, _)
DigitsEnd(s, i) == IF i <= Len(s) /\ IsDigit(s[i]) THEN DigitsEnd(s, i + 1) ELSE i

\* an integer: 0, or a digit 1-9 followed by digits, with an optional minus
ParseNumber(s, i) ==
  LET j == IF i <= Len(s) /\ s[i] = "-" THEN i + 1 ELSE i
      e == IF j <= Len(s) /\ s[j] = "0" THEN j + 1 ELSE DigitsEnd(s, j)
  IN  IF e = j THEN JsonFail
      ELSE JsonOk([ t |-> "number", s |-> SubSeq(s, i, e - 1) ], e)

RECURSIVE StringEnd(_, _)
\* the position of the closing quote, 0 when there is none
StringEnd(s, i) ==
  IF i > Len(s) \/ s[i] = "\\" \/ s[i] = "\n" \/ s[i] = "\t" THEN 0
  ELSE IF s[i] = Quote THEN i
  ELSE StringEnd(s, i + 1)

\* a string, s[i] being its opening quote
ParseString(s, i) ==
  LET e == StringEnd(s, i + 1)
  IN  IF e = 0 THEN JsonFail
      ELSE JsonOk([ t |-> "string", s |-> SubSeq(s, i + 1, e - 1) ], e + 1)

RECURSIVE ParseValue(_, _)
RECURSIVE ParseElements(_, _, _)
RECURSIVE ParseMembers(_, _, _)

\* the elements of an array after '[' or ',', acc being those read so far
ParseElements(s, i, acc) ==
  LET r == ParseValue(s, SkipSpace(s, i))
      j == SkipSpace(s, r.i)
  IN  IF ~r.ok \/ j > Len(s) THEN JsonFail
      ELSE IF s[j] = "," THEN ParseElements(s, j + 1, Append(acc, r.v))
      ELSE IF s[j] = "]" THEN JsonOk([ t |-> "array", items |-> Append(acc, r.v) ], j + 1)
      ELSE JsonFail

\* the members of an object after '{' or ',', acc being those read so far
ParseMembers(s, i, acc) ==
  LET k == SkipSpace(s, i)
      key == IF k <= Len(s) /\ s[k] = Quote THEN ParseString(s, k) ELSE JsonFail
      c == SkipSpace(s, key.i)
  IN  IF ~key.ok \/ c > Len(s) \/ s[c] # ":" THEN JsonFail
      ELSE LET r == ParseValue(s, SkipSpace(s, c + 1))
               j == SkipSpace(s, r.i)
               more == Append(acc, [ key |-> key.v.s, val |-> r.v ])
           IN  IF ~r.ok \/ j > Len(s) THEN JsonFail
               ELSE IF s[j] = "," THEN ParseMembers(s, j + 1, more)
               ELSE IF s[j] = "}" THEN JsonOk([ t |-> "object", members |-> more ], j + 1)
               ELSE JsonFail

\* the JSON value that starts at position i
ParseValue(s, i) ==
  IF i > Len(s) THEN JsonFail
  ELSE IF s[i] = "n" THEN ParseWord(s, i, << "n", "u", "l", "l" >>, [ t |-> "null" ])
  ELSE IF s[i] = "t" THEN ParseWord(s, i, << "t", "r", "u", "e" >>, [ t |-> "true" ])
  ELSE IF s[i] = "f" THEN ParseWord(s, i, << "f", "a", "l", "s", "e" >>, [ t |-> "false" ])
  ELSE IF s[i] = Quote THEN ParseString(s, i)
  ELSE IF s[i] = "-" \/ IsDigit(s[i]) THEN ParseNumber(s, i)
  ELSE IF s[i] = "["
       THEN LET j == SkipSpace(s, i + 1)
            IN  IF j <= Len(s) /\ s[j] = "]"
                THEN JsonOk([ t |-> "array", items |-> << >> ], j + 1)
                ELSE ParseElements(s, i + 1, << >>)
  ELSE IF s[i] = "{"
       THEN LET j == SkipSpace(s, i + 1)
            IN  IF j <= Len(s) /\ s[j] = "}"
                THEN JsonOk([ t |-> "object", members |-> << >> ], j + 1)
                ELSE ParseMembers(s, i + 1, << >>)
  ELSE JsonFail

\* JSON.parse(text): ok is FALSE when it throws a SyntaxError
JsonParse(text) ==
  LET s == StringOf(text)
      r == ParseValue(s, SkipSpace(s, 1))
  IN  IF r.ok /\ SkipSpace(s, r.i) = Len(s) + 1 THEN r ELSE JsonFail

\* Array.isArray(v)
IsArray(v) == v.t = "array"

(***************************************************************************)
(* POST /api/send-bulk                                                     *)
(***************************************************************************)
\* number of bulk-send requests that are ever issued
MaxBulk == 2

BulkReqs == 1..MaxBulk

MsgEmptyMessage == "A message must contain either text content or a media file."
MsgNoContacts == "No contacts provided or invalid format."
MsgInvalidContacts == "Invalid contacts format."
MsgSent == "Message successfully sent to ${contacts.length} contacts."
MsgInternalError == "An internal server error occurred. Please try again later."

\* content && content.trim().length > 0
HasTextContent(content) ==
  /\ content # Undefined
  /\ content # << >>
  /\ Len(Trim(content)) > 0

\* v[key] of a parsed value that is not null: the last member of that key
\* of an object, undefined otherwise
GetProp(v, key) ==
  IF v.t = "object" /\ \E i \in 1..Len(v.members) : v.members[i].key = key
  THEN LET last == CHOOSE i \in 1..Len(v.members) :
                     /\ v.members[i].key = key
                     /\ \A j \in (i + 1)..Len(v.members) : v.members[j].key # key
       IN  [ defined |-> TRUE, v |-> v.members[last].val ]
  ELSE [ defined |-> FALSE, v |-> [ t |-> "none" ] ]

RECURSIVE TextOf(_)
RECURSIVE JoinText(_)

\* the elements of an array joined by commas, null as the empty string
JoinText(items) ==
  IF items = << >> THEN << >>
  ELSE LET head == IF items[1].t = "null" THEN << >> ELSE TextOf(items[1])
       IN  IF Len(items) = 1 THEN head
           ELSE head \o << "," >> \o JoinText(Tail(items))

\* `${v}` of a parsed value
TextOf(v) ==
  IF v.t \in { "string", "number" } THEN v.s
  ELSE IF v.t = "null" THEN << "n", "u", "l", "l" >>
  ELSE IF v.t = "true" THEN << "t", "r", "u", "e" >>
  ELSE IF v.t = "false" THEN << "f", "a", "l", "s", "e" >>
  ELSE IF v.t = "array" THEN JoinText(v.items)
  ELSE << "[", "o", "b", "j", "e", "c", "t", " ", "O", "b", "j", "e", "c", "t", "]" >>

\* `${contact[key]}`
PropText(v, key) ==
  LET p == GetProp(v, key)
  IN  IF p.defined THEN TextOf(p.v) ELSE StringOf(Undefined)

KeyName == << "n", "a", "m", "e" >>
KeyPhone == << "p", "h", "o", "n", "e" >>

\* contacts.forEach(contact => console.log(contact.name, contact.phone)):
\* the lines logged, and whether reading a property of null threw
\* a loop that walks the list from its end
RECURSIVE ForEachBackwards(_, _)
ForEachBackwards(items, logged) ==
  IF items = << >> THEN [ threw |-> FALSE, sent |-> logged ]
  ELSE IF items[Len(items)].t = "null" THEN [ threw |-> TRUE, sent |-> logged ]
  ELSE ForEachBackwards(SubSeq(items, 1, Len(items) - 1),
                        Append(logged, [ name |-> PropText(items[Len(items)], KeyName),
                                         phone |-> PropText(items[Len(items)], KeyPhone) ]))

RECURSIVE ForEachLog(_, _)
ForEachLog(items, logged) ==
  IF items = << >> THEN [ threw |-> FALSE, sent |-> logged ]
  ELSE IF items[1].t = "null" THEN [ threw |-> TRUE, sent |-> logged ]
  ELSE ForEachLog(Tail(items),
                  Append(logged, [ name |-> PropText(items[1], KeyName),
                                   phone |-> PropText(items[1], KeyPhone) ]))

\* the error contact.name raises on a null entry
TypeErrorNull ==
  [ multer |-> FALSE, message |-> "Cannot read properties of null (reading 'name')" ]

\* a handler that answers with the text of the exception
ErrorHandlerLeaks(err) ==
  IF err.multer THEN [ status |-> 400, msg |-> "File upload error: " \o err.message ]
  ELSE [ status |-> 500, msg |-> err.message ]

\* the generic error handler, the last middleware
ErrorHandler(err) ==
  IF err.multer THEN [ status |-> 400, msg |-> "File upload error: " \o err.message ]
  ELSE [ status |-> 500, msg |-> MsgInternalError ]

Outcome(pc, status, msg, count, sent) ==
  [ pc |-> pc, status |-> status, msg |-> msg, count |-> count, sent |-> sent ]

\* mutant: the recipients are parsed and counted before the message is
\* looked at
SendBulkRecipientsFirst(content, media, contactsJSON) ==
  LET parsed == JsonParse(contactsJSON)
  IN  IF ~parsed.ok
      THEN Outcome("done", 400, MsgInvalidContacts, 0, << >>)
      ELSE IF ~IsArray(parsed.v) \/ Len(parsed.v.items) = 0
      THEN Outcome("done", 400, MsgNoContacts, 0, << >>)
      ELSE IF ~HasTextContent(content) /\ ~media
      THEN Outcome("done", 400, MsgEmptyMessage, 0, << >>)
      ELSE LET log == ForEachLog(parsed.v.items, << >>)
           IN  IF log.threw
               THEN LET e == ErrorHandler(TypeErrorNull)
                    IN  Outcome("done", e.status, e.msg, 0, log.sent)
               ELSE Outcome("timer", 0, "", Len(parsed.v.items), log.sent)

\* the route handler up to its return: a response, or the timer it sets
SendBulk(content, media, contactsJSON) ==
  IF ~HasTextContent(content) /\ ~media
  THEN Outcome("done", 400, MsgEmptyMessage, 0, << >>)
  ELSE LET parsed == JsonParse(contactsJSON)
       IN  IF ~parsed.ok
           THEN Outcome("done", 400, MsgInvalidContacts, 0, << >>)
           ELSE IF ~IsArray(parsed.v) \/ Len(parsed.v.items) = 0
           THEN Outcome("done", 400, MsgNoContacts, 0, << >>)
           ELSE LET log == ForEachLog(parsed.v.items, << >>)
                IN  IF log.threw
                    THEN \* the generic error handler answers
                         LET e == ErrorHandler(TypeErrorNull)
                         IN  Outcome("done", e.status, e.msg, 0, log.sent)
                    ELSE Outcome("timer", 0, "", Len(parsed.v.items), log.sent)

\* request bodies of POST /api/send-bulk
Amy == << "A", "m", "y" >>
Recipient1 == [ name |-> Zoe, phone |-> Phone12 ]
Recipient2 == [ name |-> Amy, phone |-> Phone905 ]

OneRecipient == Stringify(<< Recipient1 >>)
TwoRecipients == Stringify(<< Recipient1, Recipient2 >>)
EmptyList == Stringify(<< >>)
NullEntry == << "[", "n", "u", "l", "l", "]" >>
NumberEntry == << "[", "5", "]" >>
NotAnArray == << "{", "}" >>
Truncated == << "[", "{", Quote, "n", "a", "m", "e", Quote, ":" >>

TextHi == << "H", "i" >>
TextSpaces == << " ", "\n" >>

ListBodies ==
  [ content : { Undefined, TextSpaces, TextHi },
    media : BOOLEAN,
    json : { OneRecipient, TwoRecipients } ]
OtherBodies ==
  [ content : { TextSpaces, TextHi },
    media : BOOLEAN,
    json : { EmptyList, NullEntry, NumberEntry, NotAnArray, Truncated, Undefined } ]
BulkBodies == ListBodies \cup OtherBodies

NoBulk ==
  [ content |-> Undefined, media |-> FALSE, json |-> Undefined,
    pc |-> "idle", status |-> 0, msg |-> "", count |-> 0, sent |-> << >> ]

NextBulk(b) == bulk[b].pc = "idle" /\ \A q \in 1..(b - 1) : bulk[q].pc # "idle"

\* the request arrives and the handler runs to its return
BulkArrive(b, content, media, json) ==
  /\ NextBulk(b)
  /\ LET o == SendBulk(content, media, json)
     IN  bulk' = [ bulk EXCEPT ![b] =
                     [ content |-> content, media |-> media, json |-> json,
                       pc |-> o.pc, status |-> o.status, msg |-> o.msg,
                       count |-> o.count, sent |-> o.sent ] ]
  /\ UNCHANGED << cvars, xvars >>

\* the timer of setTimeout fires and the response is sent
BulkTimer(b) ==
  /\ bulk[b].pc = "timer"
  /\ bulk' = [ bulk EXCEPT ![b] = [ @ EXCEPT !.pc = "done", !.status = 200, !.msg = MsgSent ] ]
  /\ UNCHANGED << cvars, xvars >>

BulkNext ==
  \/ \E b \in BulkReqs, i \in BulkBodies : BulkArrive(b, i.content, i.media, i.json)
  \/ \E b \in BulkReqs : BulkTimer(b)


(***************************************************************************)
(* GET /api/webhook                                                        *)
(***************************************************************************)
MaxHook == 2

Subscribe == << "s", "u", "b", "s", "c", "r", "i", "b", "e" >>
Unsubscribe == << "u", "n" >> \o Subscribe
DefaultVerifyToken ==
  << "m", "e", "r", "a", "j", "W", "e", "b", "h", "o", "o", "k", "T", "o", "k", "e", "n" >>
OwnToken == << "s", "3" >>
Challenge1 == << "4", "2" >>

MsgMissingParams == "Missing required query parameters for webhook verification."
BodyForbidden == "Forbidden"

\* the truth value JavaScript gives a string or an absent value
Truthy(v) == v # Undefined /\ v # Empty

\* process.env.WEBHOOK_VERIFY_TOKEN || "merajWebhookToken"
VerifyToken(env) == IF Truthy(env) THEN env ELSE DefaultVerifyToken

\* res.send(body): an absent body is sent as an empty one
Send(body) == IF body = Undefined THEN Empty ELSE body

\* a handler that does not look at hub.mode
WebhookAnyMode(env, mode, token, challenge) ==
  IF Truthy(mode) /\ Truthy(token)
  THEN IF token = VerifyToken(env)
       THEN [ status |-> 200, body |-> Send(challenge), msg |-> "" ]
       ELSE [ status |-> 403, body |-> Empty, msg |-> BodyForbidden ]
  ELSE [ status |-> 400, body |-> Empty, msg |-> MsgMissingParams ]

WebhookHandler(env, mode, token, challenge) ==
  IF Truthy(mode) /\ Truthy(token)
  THEN IF mode = Subscribe /\ token = VerifyToken(env)
       THEN [ status |-> 200, body |-> Send(challenge), msg |-> "" ]
       ELSE [ status |-> 403, body |-> Empty, msg |-> BodyForbidden ]
  ELSE [ status |-> 400, body |-> Empty, msg |-> MsgMissingParams ]

\* the values of the environment variable and of the query parameters
EnvTokens == { Undefined, Empty, OwnToken }
HubModes == { Undefined, Empty, Subscribe, Unsubscribe }
HubTokens == { Undefined, Empty, DefaultVerifyToken, OwnToken }
HubChallenges == { Undefined, Challenge1 }

WebhookVerify(mode, token, challenge) ==
  /\ Len(hooks) < MaxHook
  /\ LET o == WebhookHandler(envVerifyToken, mode, token, challenge)
     IN  hooks' = Append(hooks, [ mode |-> mode, token |-> token, challenge |-> challenge,
                                  status |-> o.status, body |-> o.body, msg |-> o.msg ])
  /\ UNCHANGED << cvars, bvars, mvars, envVerifyToken, avars, nvars, dvars >>

WebhookNext ==
  \E mode \in HubModes, token \in HubTokens, challenge \in HubChallenges :
    WebhookVerify(mode, token, challenge)


(***************************************************************************)
(* Content suggestion: POST /api/generate-content and the client service.  *)
(***************************************************************************)
MaxGen == 2

GenReqs == 1..MaxGen

MsgAiNotConfigured == "AI service is not configured on the server."
MsgHeadingRequired == "Heading is required to generate content."
MsgGenerationFailed == "Failed to generate AI content. Please check the server logs."
MsgKeyNotConfigured == "API key is not configured."
MsgServiceFailed == "Failed to generate AI content. Please check the API key and try again."

\* the heading of a request: absent, a string, or a JSON number
NoHeading == [ t |-> "undefined", s |-> Empty ]
StringHeading(s) == [ t |-> "string", s |-> s ]
NumberHeading == [ t |-> "number", s |-> << "5" >> ]
Sale == << "S", "a", "l", "e" >>
Headings ==
  { NoHeading, NumberHeading, StringHeading(Empty), StringHeading(BlankName),
    StringHeading(Sale) }

\* the ways the call of generateContent ends: a response with a text, a
\* response without one, a rejection (network, quota), no response object
ProviderOutcomes == { "text", "notext", "network", "quota", "malformed" }
Suggested == << "B", "u", "y" >>

\* ai is set at start when API_KEY is set
AiClient(key) == Truthy(key)

\* !heading || typeof heading !== 'string' || heading.trim().length === 0
HeadingMissing(h) == h.t # "string" \/ h.s = Empty \/ Len(Trim(h.s)) = 0

\* a route that looks at the heading before it looks at the client
GuardHeadingFirst(key, h) ==
  IF HeadingMissing(h) THEN [ status |-> 400, msg |-> MsgHeadingRequired ]
  ELSE IF ~AiClient(key) THEN [ status |-> 503, msg |-> MsgAiNotConfigured ]
  ELSE [ status |-> 0, msg |-> "" ]

\* the checks of the route before the provider is called; status 0: call
RouteGuard(key, h) ==
  IF ~AiClient(key) THEN [ status |-> 503, msg |-> MsgAiNotConfigured ]
  ELSE IF HeadingMissing(h) THEN [ status |-> 400, msg |-> MsgHeadingRequired ]
  ELSE [ status |-> 0, msg |-> "" ]

\* a route that reports each failure in its own words
RouteLeaks(outcome) ==
  IF outcome = "text" THEN [ status |-> 200, msg |-> "", content |-> Suggested ]
  ELSE IF outcome = "notext" THEN [ status |-> 200, msg |-> "", content |-> Undefined ]
  ELSE [ status |-> 500, msg |-> outcome, content |-> Undefined ]

\* the try block of the route around the call, and its catch
RouteOutcome(outcome) ==
  IF outcome = "text" THEN [ status |-> 200, msg |-> "", content |-> Suggested ]
  ELSE IF outcome = "notext" THEN [ status |-> 200, msg |-> "", content |-> Undefined ]
  ELSE [ status |-> 500, msg |-> MsgGenerationFailed, content |-> Undefined ]

\* the try block of generateMessageContent, and its catch
ServiceOutcome(outcome) ==
  IF outcome = "text" THEN [ result |-> "resolved", msg |-> "", content |-> Suggested ]
  ELSE IF outcome = "notext" THEN [ result |-> "resolved", msg |-> "", content |-> Undefined ]
  ELSE [ result |-> "rejected", msg |-> MsgServiceFailed, content |-> Undefined ]

NoGen ==
  [ via |-> "none", heading |-> NoHeading, pc |-> "idle", status |-> 0, result |-> "none",
    msg |-> "", content |-> Undefined, outcome |-> "none" ]

NextGen(g) == gen[g].pc = "idle" /\ \A q \in 1..(g - 1) : gen[q].pc # "idle"

\* POST /api/generate-content arrives
RouteArrive(g, h) ==
  /\ NextGen(g)
  /\ LET q == [ NoGen EXCEPT !.via = "route", !.heading = h ]
         o == RouteGuard(apiKey, h)
     IN  IF o.status # 0
         THEN /\ gen' = [ gen EXCEPT ![g] =
                            [ q EXCEPT !.pc = "done", !.status = o.status, !.msg = o.msg,
                                       !.result = "response" ] ]
              /\ UNCHANGED providerCalls
         ELSE /\ gen' = [ gen EXCEPT ![g] = [ q EXCEPT !.pc = "calling" ] ]
              /\ providerCalls' = Append(providerCalls, g)
  /\ UNCHANGED << cvars, bvars, mvars, hvars, nvars, dvars, apiKey >>

\* generateMessageContent(heading) is called; a string by its signature
ServiceCall(g, h) ==
  /\ NextGen(g)
  /\ h.t = "string"
  /\ LET q == [ NoGen EXCEPT !.via = "service", !.heading = h ]
     IN  IF ~Truthy(apiKey)
         THEN /\ gen' = [ gen EXCEPT ![g] =
                            [ q EXCEPT !.pc = "done", !.result = "rejected",
                                       !.msg = MsgKeyNotConfigured ] ]
              /\ UNCHANGED providerCalls
         ELSE /\ gen' = [ gen EXCEPT ![g] = [ q EXCEPT !.pc = "calling" ] ]
              /\ providerCalls' = Append(providerCalls, g)
  /\ UNCHANGED << cvars, bvars, mvars, hvars, nvars, dvars, apiKey >>

\* the call of generateContent ends and the request is answered
ProviderSettles(g, outcome) ==
  /\ gen[g].pc = "calling"
  /\ gen' = [ gen EXCEPT ![g] =
                IF gen[g].via = "route"
                THEN LET o == RouteOutcome(outcome)
                     IN  [ @ EXCEPT !.pc = "done", !.status = o.status, !.msg = o.msg,
                                    !.content = o.content, !.result = "response",
                                    !.outcome = outcome ]
                ELSE LET o == ServiceOutcome(outcome)
                     IN  [ @ EXCEPT !.pc = "done", !.result = o.result, !.msg = o.msg,
                                    !.content = o.content, !.outcome = outcome ] ]
  /\ UNCHANGED << cvars, bvars, mvars, hvars, nvars, dvars, apiKey, providerCalls >>

ApiKeys == { Undefined, Empty, OwnToken }

AiNext ==
  \/ \E g \in GenReqs, h \in Headings : RouteArrive(g, h)
  \/ \E g \in GenReqs, h \in Headings : ServiceCall(g, h)
  \/ \E g \in GenReqs, outcome \in ProviderOutcomes : ProviderSettles(g, outcome)


(***************************************************************************)
(* connectToDatabase                                                       *)
(***************************************************************************)
MaxConn == 5

Callers == 1..MaxConn

\* cached.promise = null
NoAttempt == 0

NoCaller ==
  [ pc |-> "idle", awaits |-> NoAttempt, started |-> FALSE, result |-> "none" ]

NextCaller(c) == callers[c].pc = "idle" /\ \A q \in 1..(c - 1) : callers[q].pc # "idle"

\* an event loop that takes the next event while continuations are waiting
AnyTime == TRUE

\* a request or a network event is taken up only when no continuation is
\* left to run
MacrotaskMayRun == microtasks = << >>

\* the callers waiting on attempt a, in the order they began to wait
RECURSIVE Waiters(_, _)
Waiters(a, c) ==
  IF c > MaxConn THEN << >>
  ELSE IF callers[c].pc = "awaiting" /\ callers[c].awaits = a
       THEN << c >> \o Waiters(a, c + 1)
       ELSE Waiters(a, c + 1)

\* a route handler calls connectToDatabase, up to its await
ConnCall(c) ==
  /\ MacrotaskMayRun
  /\ NextCaller(c)
  /\ IF cachedConn
     THEN /\ callers' = [ callers EXCEPT ![c] = [ @ EXCEPT !.pc = "done", !.result = "conn" ] ]
          /\ UNCHANGED << cachedPromise, attempts, microtasks >>
     ELSE IF cachedPromise = NoAttempt
     THEN IF ~mongoUri
          THEN /\ callers' = [ callers EXCEPT ![c] =
                                 [ @ EXCEPT !.pc = "done", !.result = "error" ] ]
               /\ UNCHANGED << cachedPromise, attempts, microtasks >>
          ELSE /\ attempts' = Append(attempts, "pending")
               /\ cachedPromise' = Len(attempts) + 1
               /\ callers' = [ callers EXCEPT ![c] =
                                 [ @ EXCEPT !.pc = "awaiting", !.started = TRUE,
                                            !.awaits = Len(attempts) + 1 ] ]
               /\ UNCHANGED microtasks
     ELSE /\ callers' = [ callers EXCEPT ![c] =
                            [ @ EXCEPT !.pc = "awaiting", !.awaits = cachedPromise ] ]
          /\ microtasks' = IF attempts[cachedPromise] = "pending" THEN microtasks
                           ELSE Append(microtasks, c)
          /\ UNCHANGED << cachedPromise, attempts >>
  /\ UNCHANGED << cvars, bvars, mvars, hvars, avars, dvars, mongoUri, cachedConn >>

\* mongoose.connect settles: the continuations of the waiting callers are
\* queued in the order the callers began to wait
AttemptSettles(a, outcome) ==
  /\ MacrotaskMayRun
  /\ a \in 1..Len(attempts) /\ attempts[a] = "pending"
  /\ attempts' = [ attempts EXCEPT ![a] = outcome ]
  /\ microtasks' = microtasks \o Waiters(a, 1)
  /\ UNCHANGED << cvars, bvars, mvars, hvars, avars, dvars, mongoUri, cachedConn, cachedPromise, callers >>

\* the continuation of the first ready caller runs: the rest of the try
\* block, or the catch block
Continue ==
  /\ microtasks # << >>
  /\ LET c == Head(microtasks)
     IN  IF attempts[callers[c].awaits] = "resolved"
         THEN /\ cachedConn' = TRUE
              /\ callers' = [ callers EXCEPT ![c] =
                                [ @ EXCEPT !.pc = "done", !.result = "conn" ] ]
              /\ UNCHANGED cachedPromise
         ELSE /\ cachedPromise' = NoAttempt
              /\ callers' = [ callers EXCEPT ![c] =
                                [ @ EXCEPT !.pc = "done", !.result = "error" ] ]
              /\ UNCHANGED cachedConn
  /\ microtasks' = Tail(microtasks)
  /\ UNCHANGED << cvars, bvars, mvars, hvars, avars, dvars, mongoUri, attempts >>

ConnNext ==
  \/ \E c \in Callers : ConnCall(c)
  \/ \E a \in 1..MaxConn, outcome \in { "resolved", "rejected" } : AttemptSettles(a, outcome)
  \/ Continue


(***************************************************************************)
(* The dashboard: DashboardPage and ContactManager.                        *)
(***************************************************************************)
MaxOps == 2

Ops == 1..MaxOps

NoError == ""
MsgLoadFailed == "Failed to load contacts. Please refresh the page."

\* the contacts the backend may hold when the page is opened
InitialStores == { {}, { 1 }, { 1, 2 } }

\* the list GET /api/contacts answers with: the ids in ascending order
RECURSIVE Ascending(_)
Ascending(ids) ==
  IF ids = {} THEN << >>
  ELSE LET least == CHOOSE i \in ids : \A j \in ids : i <= j
       IN  << least >> \o Ascending(ids \ { least })

\* prevContacts.filter(c => c.id !== id)
RECURSIVE Without(_, _)
Without(list, id) ==
  IF list = << >> THEN << >>
  ELSE IF list[1] = id THEN Without(Tail(list), id)
  ELSE << list[1] >> \o Without(Tail(list), id)

\* what DashboardPage renders in its main element
DashboardView(loading, err) ==
  IF loading THEN "spinner"
  ELSE IF err # NoError THEN "error text"
  ELSE "managers"

\* the props DashboardPage passes to ContactManager: contacts, onAddContact
\* and onDeleteContact; isLoading, error and onRetry are left out
PropsPassed(list) ==
  [ contacts |-> list, isLoading |-> FALSE, error |-> NoError, onRetry |-> FALSE ]

\* what ContactManager renders under its list heading
ContactListView(props) ==
  IF props.isLoading THEN "spinner"
  ELSE IF props.error # NoError THEN "error with Retry button"
  ELSE IF Len(props.contacts) > 0 THEN "table"
  ELSE "empty"

\* a Retry button is on the page and a click on it calls a handler
RetryOffered ==
  /\ DashboardView(isLoading, error) = "managers"
  /\ ContactListView(PropsPassed(shown)) = "error with Retry button"
  /\ PropsPassed(shown).onRetry

\* the add form and the delete buttons are on the page
ManagerShown == DashboardView(isLoading, error) = "managers"

NoOp == [ kind |-> "none", id |-> 0, pc |-> "idle", ok |-> FALSE, original |-> << >> ]

NextOp(o) == ops[o].pc = "idle" /\ \A q \in 1..(o - 1) : ops[q].pc # "idle"

\* the fetch of the effect succeeds
FetchSucceeds ==
  /\ fetchPc = "pending"
  /\ shown' = Ascending(server)
  /\ isLoading' = FALSE
  /\ fetchPc' = "done"
  /\ UNCHANGED << cvars, bvars, mvars, hvars, avars, nvars, server, serverNext, error, ops >>

\* the fetch of the effect fails
FetchFails ==
  /\ fetchPc = "pending"
  /\ error' = MsgLoadFailed
  /\ isLoading' = FALSE
  /\ fetchPc' = "done"
  /\ UNCHANGED << cvars, bvars, mvars, hvars, avars, nvars, server, serverNext, shown, ops >>

\* the add form is submitted; its button is disabled while an add is pending
AddSubmit(o) ==
  /\ ManagerShown
  /\ NextOp(o)
  /\ \A q \in Ops : ops[q].kind = "add" => ops[q].pc = "done"
  /\ ops' = [ ops EXCEPT ![o] = [ NoOp EXCEPT !.kind = "add", !.pc = "sent" ] ]
  /\ UNCHANGED << cvars, bvars, mvars, hvars, avars, nvars, server, serverNext, fetchPc, isLoading,
                  error, shown >>

\* the backend answers POST /api/contacts: a new contact, or an error
AddServed(o, ok) ==
  /\ ops[o].kind = "add" /\ ops[o].pc = "sent"
  /\ IF ok
     THEN /\ server' = server \cup { serverNext }
          /\ serverNext' = serverNext + 1
          /\ ops' = [ ops EXCEPT ![o] = [ @ EXCEPT !.pc = "served", !.ok = TRUE,
                                                   !.id = serverNext ] ]
     ELSE /\ ops' = [ ops EXCEPT ![o] = [ @ EXCEPT !.pc = "served", !.ok = FALSE ] ]
          /\ UNCHANGED << server, serverNext >>
  /\ UNCHANGED << cvars, bvars, mvars, hvars, avars, nvars, fetchPc, isLoading, error, shown >>

\* addContact continues after its await
AddReturns(o) ==
  /\ ops[o].kind = "add" /\ ops[o].pc = "served"
  /\ shown' = IF ops[o].ok THEN Append(shown, ops[o].id) ELSE shown
  /\ ops' = [ ops EXCEPT ![o] = [ @ EXCEPT !.pc = "done" ] ]
  /\ UNCHANGED << cvars, bvars, mvars, hvars, avars, nvars, server, serverNext, fetchPc, isLoading,
                  error >>

\* a delete button is clicked: deleteContact up to its await
DeleteClick(o, id) ==
  /\ ManagerShown
  /\ NextOp(o)
  /\ \E i \in 1..Len(shown) : shown[i] = id
  /\ ops' = [ ops EXCEPT ![o] = [ NoOp EXCEPT !.kind = "delete", !.id = id, !.pc = "sent",
                                             !.original = shown ] ]
  /\ shown' = Without(shown, id)
  /\ UNCHANGED << cvars, bvars, mvars, hvars, avars, nvars, server, serverNext, fetchPc, isLoading,
                  error >>

\* the backend answers DELETE /api/contacts/:id; it may fail, and it
\* answers 404 when it does not hold the id
DeleteServed(o, fails) ==
  /\ ops[o].kind = "delete" /\ ops[o].pc = "sent"
  /\ IF ~fails /\ ops[o].id \in server
     THEN /\ server' = server \ { ops[o].id }
          /\ ops' = [ ops EXCEPT ![o] = [ @ EXCEPT !.pc = "served", !.ok = TRUE ] ]
     ELSE /\ ops' = [ ops EXCEPT ![o] = [ @ EXCEPT !.pc = "served", !.ok = FALSE ] ]
          /\ UNCHANGED server
  /\ UNCHANGED << cvars, bvars, mvars, hvars, avars, nvars, serverNext, fetchPc, isLoading, error,
                  shown >>

\* deleteContact continues after its await: on an error it puts the list
\* it copied back
DeleteReturns(o) ==
  /\ ops[o].kind = "delete" /\ ops[o].pc = "served"
  /\ shown' = IF ops[o].ok THEN shown ELSE ops[o].original
  /\ ops' = [ ops EXCEPT ![o] = [ @ EXCEPT !.pc = "done" ] ]
  /\ UNCHANGED << cvars, bvars, mvars, hvars, avars, nvars, server, serverNext, fetchPc, isLoading,
                  error >>

DashNext ==
  \/ FetchSucceeds
  \/ FetchFails
  \/ \E o \in Ops : AddSubmit(o)
  \/ \E o \in Ops, ok \in BOOLEAN : AddServed(o, ok)
  \/ \E o \in Ops : AddReturns(o)
  \/ \E o \in Ops, id \in 1..(MaxOps + 2) : DeleteClick(o, id)
  \/ \E o \in Ops, fails \in BOOLEAN : DeleteServed(o, fails)
  \/ \E o \in Ops : DeleteReturns(o)


(***************************************************************************)
(* The message composer: MessageComposer.handleSend, with a contact list   *)
(* that is not empty.                                                      *)
(***************************************************************************)
MaxSend == 3

Sends == 1..MaxSend

\* sendStatus = null
NoStatus == [ type |-> "none", by |-> 0 ]

NoSend == [ pc |-> "idle", type |-> "none" ]

NextSend(a) == sends[a].pc = "idle" /\ \A q \in 1..(a - 1) : sends[q].pc # "idle"

\* the user types a message or picks a file
Compose ==
  /\ ~hasMessage
  /\ hasMessage' = TRUE
  /\ UNCHANGED << cvars, bvars, hvars, avars, nvars, dvars, isSending, sendStatus, sends,
                  timers >>

\* the form is submitted (its button is disabled while isSending):
\* handleSend up to its return or its await
SendSubmit(a) ==
  /\ ~isSending
  /\ NextSend(a)
  /\ IF ~hasMessage
     THEN /\ sendStatus' = [ type |-> "error", by |-> a ]
          /\ sends' = [ sends EXCEPT ![a] = [ pc |-> "done", type |-> "invalid" ] ]
          /\ UNCHANGED isSending
     ELSE /\ isSending' = TRUE
          /\ sendStatus' = NoStatus
          /\ sends' = [ sends EXCEPT ![a] = [ pc |-> "sent", type |-> "none" ] ]
  /\ UNCHANGED << cvars, bvars, hvars, avars, nvars, dvars, hasMessage, timers >>

\* api.sendBulkMessage settles: the rest of the try block or the catch,
\* then the finally block, which starts the timer
SendReturns(a, ok) ==
  /\ sends[a].pc = "sent"
  /\ sendStatus' = [ type |-> IF ok THEN "success" ELSE "error", by |-> a ]
  /\ hasMessage' = IF ok THEN FALSE ELSE hasMessage
  /\ isSending' = FALSE
  /\ sends' = [ sends EXCEPT ![a] = [ pc |-> "done",
                                      type |-> IF ok THEN "success" ELSE "error" ] ]
  /\ timers' = Append(timers, a)
  /\ UNCHANGED << cvars, bvars, hvars, avars, nvars, dvars >>

\* the oldest timer fires: setSendStatus(null)
TimerFires ==
  /\ timers # << >>
  /\ sendStatus' = NoStatus
  /\ timers' = Tail(timers)
  /\ UNCHANGED << cvars, bvars, hvars, avars, nvars, dvars, hasMessage, isSending, sends >>

ComposerNext ==
  \/ Compose
  \/ \E a \in Sends : SendSubmit(a)
  \/ \E a \in Sends, ok \in BOOLEAN : SendReturns(a, ok)
  \/ TimerFires


(***************************************************************************)
(* Specifications.                                                         *)
(***************************************************************************)
Init ==
  /\ storeUp \in BOOLEAN
  /\ storeLost = FALSE
  /\ contacts = {}
  /\ nextId = 1
  /\ req = [ r \in Reqs |-> NoRequest ]
  /\ clock = 0
  /\ bulk = [ b \in BulkReqs |-> NoBulk ]
  /\ envVerifyToken \in EnvTokens
  /\ hooks = << >>
  /\ apiKey \in ApiKeys
  /\ gen = [ g \in GenReqs |-> NoGen ]
  /\ providerCalls = << >>
  /\ mongoUri \in BOOLEAN
  /\ cachedConn = FALSE
  /\ cachedPromise = NoAttempt
  /\ attempts = << >>
  /\ callers = [ c \in Callers |-> NoCaller ]
  /\ microtasks = << >>
  /\ server \in InitialStores
  /\ serverNext = 3
  /\ fetchPc = "pending"
  /\ isLoading = TRUE
  /\ error = NoError
  /\ shown = << >>
  /\ ops = [ o \in Ops |-> NoOp ]
  /\ hasMessage = FALSE
  /\ isSending = FALSE
  /\ sendStatus = NoStatus
  /\ sends = [ a \in Sends |-> NoSend ]
  /\ timers = << >>

Next ==
  \/ \E r \in Reqs, b \in CreateBodies : CreateArrive(r, b.name, b.phone)
  \/ \E r \in Reqs : CreateInsert(r)
  \/ \E r \in Reqs : ListArrive(r)
  \/ \E r \in Reqs : ListFind(r)
  \/ \E r \in Reqs, id \in IdParams : DeleteArrive(r, id)
  \/ \E r \in Reqs : DeleteFind(r)

vars == << cvars, bvars, xvars >>

\* the environment of the other routes, left unset
\* the start of the backend with the environment of the other parts unset
InitBackend ==
  Init /\ envVerifyToken = Undefined /\ apiKey = Undefined /\ mongoUri = FALSE /\ server = {}

Spec == InitBackend /\ [][Next]_vars

\* POST /api/contacts alone, with the blank-field bodies among its inputs
CreateNext ==
  \/ \E r \in Reqs, b \in CreateBodies \cup BlankFieldBodies :
       CreateArrive(r, b.name, b.phone)
  \/ \E r \in Reqs : CreateInsert(r)

SpecCreate == InitBackend /\ [][CreateNext]_vars

\* the bulk-send route alone
SpecBulk == InitBackend /\ [][BulkNext]_vars

\* the webhook verification route alone
InitWebhook ==
  Init /\ storeUp /\ apiKey = Undefined /\ mongoUri = FALSE /\ server = {}

SpecWebhook == InitWebhook /\ [][WebhookNext]_vars

\* content suggestion alone
InitAi ==
  Init /\ storeUp /\ envVerifyToken = Undefined /\ mongoUri = FALSE /\ server = {}

SpecAi == InitAi /\ [][AiNext]_vars

\* connectToDatabase and its callers alone
InitConn ==
  Init /\ storeUp /\ envVerifyToken = Undefined /\ apiKey = Undefined /\ server = {}

SpecConn == InitConn /\ [][ConnNext]_vars

\* the dashboard alone
InitDash ==
  Init /\ storeUp /\ envVerifyToken = Undefined /\ apiKey = Undefined /\ mongoUri = FALSE

SpecDash == InitDash /\ [][DashNext]_vars

\* the message composer alone
SpecComposer == InitBackend /\ [][ComposerNext]_vars

\* all the routes of the backend side by side, a few inputs each and
\* MaxRoutes requests in all; the store is reachable or not
MaxRoutes == 3

FewCreateBodies ==
  { [ name |-> Zoe, phone |-> Phone12 ],
    [ name |-> Zoe, phone |-> PhoneNoPlus ],
    [ name |-> BlankName, phone |-> Phone12 ],
    [ name |-> Undefined, phone |-> Undefined ] }
FewIdParams == { BadId, 1 }
FewBulkBodies ==
  { [ content |-> TextHi, media |-> FALSE, json |-> OneRecipient ],
    [ content |-> TextHi, media |-> FALSE, json |-> NullEntry ],
    [ content |-> Undefined, media |-> FALSE, json |-> OneRecipient ] }
FewHubQueries ==
  { [ mode |-> Subscribe, token |-> DefaultVerifyToken, challenge |-> Challenge1 ],
    [ mode |-> Subscribe, token |-> OwnToken, challenge |-> Challenge1 ],
    [ mode |-> Undefined, token |-> DefaultVerifyToken, challenge |-> Challenge1 ] }
FewHeadings == { StringHeading(Sale), StringHeading(BlankName) }
FewOutcomes == { "text", "network" }

\* the requests that have arrived so far, on all routes
Arrived ==
  Cardinality({ r \in Reqs : req[r].pc # "idle" })
    + Cardinality({ b \in BulkReqs : bulk[b].pc # "idle" })
    + Cardinality({ g \in GenReqs : gen[g].pc # "idle" })
    + Len(hooks)

RoutesNext ==
  \/ \E r \in Reqs, b \in FewCreateBodies :
       Arrived < MaxRoutes /\ CreateArrive(r, b.name, b.phone)
  \/ \E r \in Reqs : CreateInsert(r)
  \/ \E r \in Reqs : Arrived < MaxRoutes /\ ListArrive(r)
  \/ \E r \in Reqs : ListFind(r)
  \/ \E r \in Reqs, id \in FewIdParams : Arrived < MaxRoutes /\ DeleteArrive(r, id)
  \/ \E r \in Reqs : DeleteFind(r)
  \/ \E b \in BulkReqs, i \in FewBulkBodies :
       Arrived < MaxRoutes /\ BulkArrive(b, i.content, i.media, i.json)
  \/ \E b \in BulkReqs : BulkTimer(b)
  \/ \E q \in FewHubQueries :
       Arrived < MaxRoutes /\ WebhookVerify(q.mode, q.token, q.challenge)
  \/ \E g \in GenReqs, h \in FewHeadings : Arrived < MaxRoutes /\ RouteArrive(g, h)
  \/ \E g \in GenReqs, outcome \in FewOutcomes : ProviderSettles(g, outcome)
  \/ ConnectionLost

InitRoutes ==
  Init /\ envVerifyToken = Undefined /\ apiKey = OwnToken /\ mongoUri = FALSE /\ server = {}

SpecRoutes == InitRoutes /\ [][RoutesNext]_vars

(***************************************************************************)
(* Vocabulary of the properties, stated independently of the operators     *)
(* that model the code.                                                    *)
(***************************************************************************)
Done(r) == req[r].pc = "done"

\* request r receives its response in this step
Completes(r) == req[r].pc # "done" /\ req'[r].pc = "done"

Digits19 == { "1", "2", "3", "4", "5", "6", "7", "8", "9" }
Digits09 == Digits19 \cup { "0" }

\* p has the E.164 shape: '+', a digit 1-9, then 1 to 14 more digits
E164Shape(p) ==
  \E n \in 1..14 :
    /\ Len(p) = n + 2
    /\ p[1] = "+"
    /\ p[2] \in Digits19
    /\ \A i \in 3..(n + 2) : p[i] \in Digits09

Blank(c) == c \in { " ", "\t", "\n" }

\* s holds a character that is not white space
NonBlank(s) == \E i \in 1..Len(s) : ~Blank(s[i])

\* t is s without its leading and trailing white space
TrimmedForm(t, s) ==
  \E i \in 1..(Len(s) + 1), j \in 0..Len(s) :
    /\ t = SubSeq(s, i, j)
    /\ \A k \in 1..Len(s) : (k < i \/ k > j) => Blank(s[k])
    /\ t # << >> => ~Blank(t[1]) /\ ~Blank(t[Len(t)])

\* a comes before b, or equals it, in ascending order of the code units
NameAscending(a, b) ==
  \/ /\ Len(a) <= Len(b)
     /\ \A i \in 1..Len(a) : a[i] = b[i]
  \/ \E i \in 1..Len(a) :
       /\ i <= Len(b)
       /\ \A k \in 1..(i - 1) : a[k] = b[k]
       /\ Code(a[i]) < Code(b[i])

StoredPhones == { d.phone : d \in contacts }
StoredIds == { d._id : d \in contacts }

Creates == { r \in Reqs : req[r].op = "create" }
Lists == { r \in Reqs : req[r].op = "list" }
Deletes == { r \in Reqs : req[r].op = "delete" }

\* the id a successful create answered with
CreatedId(r) == req[r].body[1].id

(***************************************************************************)
(* C1                                                                      *)
(***************************************************************************)
\* C1: in every reachable state of the contact store, whatever creates,
\* lists and deletes ran and however they interleaved, no two stored
\* contacts have the same phone.
C1_UniquePhone ==
  \A d1 \in contacts, d2 \in contacts : d1.phone = d2.phone => d1 = d2

C1_Witness ==
  /\ Cardinality(contacts) >= 2
  /\ \E r \in Creates : req[r].status = 409

(***************************************************************************)
(* C2                                                                      *)
(***************************************************************************)
\* requests a and b were in flight at the same time
Overlap(a, b) ==
  /\ req[a].issued < req[b].doneAt
  /\ req[b].issued < req[a].doneAt

\* no request other than a and b creates a contact with that phone or
\* deletes a contact that a or b created
OnlyCreators(a, b) ==
  \A q \in Reqs \ { a, b } :
    /\ ~(req[q].op = "create" /\ req[q].phone = req[a].phone)
    /\ ~(/\ req[q].op = "delete" /\ req[q].status = 200
         /\ \E c \in { a, b } : req[c].status = 201 /\ CreatedId(c) = req[q].id)

ConcurrentSamePhone(a, b) ==
  /\ a # b
  /\ req[a].op = "create" /\ req[b].op = "create"
  /\ Done(a) /\ Done(b)
  /\ storeUp
  /\ req[a].phone = req[b].phone
  /\ E164Shape(req[a].phone)
  /\ NonBlank(req[a].name) /\ NonBlank(req[b].name)
  /\ Overlap(a, b)
  /\ OnlyCreators(a, b)

\* C2: two concurrent creates with the same valid phone, against a store
\* that does not hold that phone: exactly one gets 201, the other 409, and
\* exactly one record with that phone is stored.
C2_ConcurrentCreate ==
  \A a \in Reqs, b \in Reqs :
    ConcurrentSamePhone(a, b) =>
      /\ { req[a].status, req[b].status } = { 201, 409 }
      /\ Cardinality({ d \in contacts : d.phone = req[a].phone }) = 1

C2_Witness ==
  \E a \in Reqs, b \in Reqs :
    /\ ConcurrentSamePhone(a, b)
    /\ req[a].status = 409 /\ req[b].status = 201
    /\ req[a].issued < req[b].issued

(***************************************************************************)
(* C3                                                                      *)
(***************************************************************************)
\* the create request r gets its response in this step, while the store is
\* reachable and holds r's phone
CreateOnStoredPhone(r) ==
  /\ Completes(r)
  /\ req'[r].op = "create"
  /\ storeUp
  /\ req'[r].phone \in StoredPhones

Rejected409(r) ==
  /\ req'[r].status = 409
  /\ req'[r].msgs = << MsgDuplicate >>
  /\ contacts' = contacts

\* C3 as stated: a create whose phone is stored, with any name, fails
\* with 409 'Phone number already exists.' and leaves the store as it was.
C3_Original ==
  [][ \A r \in Reqs : CreateOnStoredPhone(r) => Rejected409(r) ]_vars

\* C3 (amended): a create whose phone is stored fails with 409 'Phone
\* number already exists.' when its name is non-blank after trimming, and
\* with 400 'Please provide a name' when its name is blank; in both cases
\* the store is left as it was.
C3_DuplicateRejected ==
  [][ \A r \in Reqs :
        CreateOnStoredPhone(r) =>
          IF NonBlank(req'[r].name)
          THEN Rejected409(r)
          ELSE /\ req'[r].status = 400
               /\ req'[r].msgs = << MsgNameRequired >>
               /\ contacts' = contacts ]_vars

C3_Witness ==
  /\ Cardinality(contacts) = 1
  /\ \E r \in Creates : req[r].status = 409 /\ req[r].msgs = << MsgDuplicate >>
  /\ \E r \in Creates : req[r].status = 400 /\ req[r].phone \in StoredPhones

(***************************************************************************)
(* C4                                                                      *)
(***************************************************************************)
\* C4: a create whose phone does not have the E.164 shape fails with 400
\* and the store is unchanged: it never reaches the store's insert.
C4_BadPhoneRejected ==
  [][ \A r \in Reqs :
        /\ (req'[r].op = "create" /\ req'[r].pc = "store") => E164Shape(req'[r].phone)
        /\ (/\ Completes(r)
            /\ req'[r].op = "create"
            /\ storeUp
            /\ ~E164Shape(req'[r].phone))
           => /\ req'[r].status = 400
              /\ contacts' = contacts
              /\ nextId' = nextId ]_vars

C4_Witness ==
  /\ contacts # {}
  /\ \A p \in { PhoneLeadingZero, PhoneTrailingSpace } :
       \E r \in Creates : req[r].phone = p /\ req[r].status = 400

(***************************************************************************)
(* C5                                                                      *)
(***************************************************************************)
\* the create request r, valid and with a phone the store does not hold,
\* gets its response in this step
ValidCreateCompletes(r) ==
  /\ Completes(r)
  /\ req'[r].op = "create"
  /\ storeUp
  /\ NonBlank(req'[r].name)
  /\ E164Shape(req'[r].phone)
  /\ req'[r].phone \notin StoredPhones

\* the response of r is 201 with a contact of a new id, the trimmed name
\* and the phone, and that contact is now stored
CreatedAsNew(r) ==
  /\ req'[r].status = 201
  /\ Len(req'[r].body) = 1
  /\ LET c == req'[r].body[1]
     IN  /\ c.id \notin StoredIds
         /\ \A q \in Creates : req[q].status = 201 => CreatedId(q) # c.id
         /\ TrimmedForm(c.name, req'[r].name)
         /\ c.phone = req'[r].phone
         /\ contacts' = contacts \cup { [ _id |-> c.id, name |-> c.name, phone |-> c.phone ] }

\* a successful delete of the contact that c created was answered before
\* the list l was
DeletedBefore(c, l) ==
  \E d \in Deletes :
    /\ req[d].status = 200
    /\ req[d].id = CreatedId(c)
    /\ req[d].doneAt < req[l].doneAt

\* every list issued after a successful create, with no delete of that
\* contact in between, shows the created contact exactly once
ListedOnce ==
  \A c \in Creates, l \in Lists :
    (/\ req[c].status = 201
     /\ req[l].status = 200
     /\ req[c].doneAt < req[l].issued
     /\ ~DeletedBefore(c, l))
    => /\ Cardinality({ i \in 1..Len(req[l].body) : req[l].body[i].id = CreatedId(c) }) = 1
       /\ Cardinality({ i \in 1..Len(req[l].body) : req[l].body[i] = req[c].body[1] }) = 1

\* C5: a create with a name that is non-blank after trimming and an E.164
\* phone that is not stored succeeds with 201 and a new id, the name stored
\* trimmed; a later list, with no delete in between, holds it exactly once.
C5_CreateThenList ==
  [][ /\ \A r \in Reqs : ValidCreateCompletes(r) => CreatedAsNew(r)
      /\ ListedOnce' ]_vars

C5_Witness ==
  \E c \in Creates, l \in Lists :
    /\ req[c].name = AmyPadded
    /\ req[c].status = 201
    /\ req[l].status = 200
    /\ req[c].doneAt < req[l].issued
    /\ Len(req[l].body) = 2

(***************************************************************************)
(* C6                                                                      *)
(***************************************************************************)
\* the contact of that id was stored when the request d arrived
StoredAtArrival(d) ==
  /\ \E c \in Creates :
       /\ req[c].status = 201
       /\ CreatedId(c) = req[d].id
       /\ req[c].doneAt < req[d].issued
  /\ ~\E e \in Deletes :
        /\ req[e].status = 200
        /\ req[e].id = req[d].id
        /\ req[e].doneAt < req[d].issued

\* C6: of two deletes of a stored id, the first gets 200 and removes the
\* contact for good, a second one issued after it gets 404; when the two
\* run concurrently exactly one of them gets 200.
C6_DeleteTwice ==
  /\ \A d \in Deletes : req[d].status = 200 => req[d].id \notin StoredIds
  /\ \A d1 \in Deletes, d2 \in Deletes :
       (/\ d1 # d2
        /\ req[d1].id = req[d2].id
        /\ storeUp
        /\ Done(d1) /\ Done(d2)
        /\ StoredAtArrival(d1)
        /\ req[d1].issued < req[d2].issued
        /\ \A e \in Deletes \ { d1, d2 } : req[e].id # req[d1].id)
       => IF req[d1].doneAt < req[d2].issued
          THEN req[d1].status = 200 /\ req[d2].status = 404
          ELSE { req[d1].status, req[d2].status } = { 200, 404 }

\* two concurrent deletes of a stored id, the later one winning
C6_Witness ==
  \E d1 \in Deletes, d2 \in Deletes :
    /\ req[d1].id = req[d2].id
    /\ StoredAtArrival(d1) /\ StoredAtArrival(d2)
    /\ req[d1].issued < req[d2].issued
    /\ req[d1].status = 404 /\ req[d2].status = 200

(***************************************************************************)
(* C7                                                                      *)
(***************************************************************************)
\* C7: a list answers with exactly the contacts the store holds, each
\* once, names ascending, whatever the insertion order; a list request
\* never changes the store, and fails only when the store is unreachable.
C7_ListSorted ==
  [][ \A r \in Reqs :
        /\ (req'[r].op = "list" /\ req'[r] # req[r])
           => contacts' = contacts /\ nextId' = nextId
        /\ (Completes(r) /\ req'[r].op = "list" /\ storeUp)
           => LET body == req'[r].body
              IN  /\ req'[r].status = 200
                  /\ Len(body) = Cardinality(contacts)
                  /\ { body[i] : i \in 1..Len(body) }
                       = { [ id |-> d._id, name |-> d.name, phone |-> d.phone ] :
                             d \in contacts }
                  /\ \A i \in 1..Len(body), j \in 1..Len(body) :
                       i < j => NameAscending(body[i].name, body[j].name) ]_vars

\* a list that shows a later insertion before an earlier one
C7_Witness ==
  \E l \in Lists :
    /\ req[l].status = 200
    /\ Len(req[l].body) = 2
    /\ req[l].body[1].id > req[l].body[2].id
    /\ req[l].body[1].name # req[l].body[2].name


(***************************************************************************)
(* Vocabulary of the bulk-send properties.                                 *)
(***************************************************************************)
BulkDone(b) == bulk[b].pc = "done"

\* the request carries neither non-blank content nor a media file
NoMessage(b) ==
  /\ bulk[b].content = Undefined \/ ~NonBlank(bulk[b].content)
  /\ ~bulk[b].media

\* the contacts fields that are no JSON text at all
UnparseableTexts == { Truncated, Undefined }

\* the contacts fields that are a JSON array with at least one entry, and
\* the number of entries of each
NonEmptyListTexts == { OneRecipient, TwoRecipients, NullEntry, NumberEntry }
EntryCount(json) == IF json = TwoRecipients THEN 2 ELSE 1

C9_AcceptedIff ==
  \A b \in BulkReqs :
    /\ BulkDone(b) =>
         (bulk[b].status = 200
            <=> (bulk[b].json \in NonEmptyListTexts /\ ~NoMessage(b)))
    /\ (bulk[b].pc = "timer" \/ bulk[b].sent # << >>) =>
         (bulk[b].json \in NonEmptyListTexts /\ ~NoMessage(b))

(***************************************************************************)
(* C10                                                                     *)
(***************************************************************************)
\* C10: a bulk-send request that passes validation has its response
\* pending until it gets the one 200 response, whose recipient count is
\* the length of the request's recipient list, also with other bulk-send
\* requests in flight.
C10_CountMatches ==
  \A b \in BulkReqs :
    (bulk[b].pc # "idle" /\ ~NoMessage(b) /\ bulk[b].json \in NonEmptyListTexts) =>
      \/ bulk[b].pc = "timer"
      \/ /\ BulkDone(b)
         /\ bulk[b].status = 200
         /\ bulk[b].msg = MsgSent
         /\ bulk[b].count = EntryCount(bulk[b].json)

(***************************************************************************)
(* C11                                                                     *)
(***************************************************************************)
\* the contacts fields that are no list of contact records: a missing
\* field, a text that is no JSON, a JSON value that is no array, an array
\* with an entry that is no record
NotContactListTexts == { Undefined, Truncated, NotAnArray, NullEntry, NumberEntry }

\* C11: a bulk-send request whose contacts field is no list of contact
\* records is answered 400 as MalformedPayload, which is not the answer
\* to an empty recipient list, and nothing is dispatched for it.
C11_MalformedRejected ==
  \A b \in BulkReqs :
    (bulk[b].pc # "idle" /\ bulk[b].json \in NotContactListTexts) =>
      /\ BulkDone(b)
      /\ bulk[b].status = 400
      /\ ~NoMessage(b) => bulk[b].msg = MsgInvalidContacts
      /\ bulk[b].msg # MsgNoContacts
      /\ bulk[b].sent = << >>

(***************************************************************************)
(* C12                                                                     *)
(***************************************************************************)
\* C12: with the store reachable, a delete with a malformed id is answered
\* 400 on arrival, without a store query; a well-formed id that is not
\* stored is answered 404; a stored id is answered 200 and exactly that
\* contact leaves the store; the 400 and 404 answers leave the store as
\* it was.
C12_DeleteOutcomes ==
  [][ \A r \in Reqs :
        /\ (req'[r].op = "delete" /\ req'[r].pc = "store") => req'[r].id # BadId
        /\ (storeUp /\ req'[r].op = "delete" /\ Completes(r)) =>
             IF req'[r].id = BadId
             THEN /\ req[r].pc = "idle"
                  /\ req'[r].status = 400
                  /\ contacts' = contacts
             ELSE IF req'[r].id \in StoredIds
             THEN /\ req'[r].status = 200
                  /\ contacts' = { d \in contacts : d._id # req'[r].id }
                  /\ Cardinality(contacts') = Cardinality(contacts) - 1
             ELSE /\ req'[r].status = 404
                  /\ contacts' = contacts ]_vars

\* a malformed id refused and a stored id deleted
C12_Witness ==
  \E d1 \in Deletes, d2 \in Deletes :
    /\ storeUp
    /\ req[d1].id = BadId /\ req[d1].status = 400
    /\ req[d2].id # BadId /\ req[d2].status = 200

(***************************************************************************)
(* C13                                                                     *)
(***************************************************************************)
\* a field that is missing, empty or made of white space only
BlankField(v) == v = Undefined \/ ~NonBlank(v)

PhoneMessages == { MsgPhoneRequired, MsgPhoneFormat }

SeqRange(q) == { q[i] : i \in 1..Len(q) }

\* C13: with the store reachable, a create whose name or phone is blank
\* is answered 400 on arrival, before any store step and with the
\* stored contacts unchanged; the answer carries the name message exactly
\* when the name is blank and a phone message exactly when the phone is
\* blank, and the name message is none of the phone messages.
C13_BlankRejected ==
  [][ \A r \in Reqs :
        (/\ storeUp
         /\ req'[r].op = "create" /\ Completes(r)
         /\ (BlankField(req'[r].name) \/ BlankField(req'[r].phone)))
        => /\ req[r].pc = "idle"
           /\ req'[r].status = 400
           /\ contacts' = contacts
           /\ BlankField(req'[r].name) <=> MsgNameRequired \in SeqRange(req'[r].msgs)
           /\ BlankField(req'[r].phone) <=>
                SeqRange(req'[r].msgs) \cap PhoneMessages # {}
           /\ MsgNameRequired \notin PhoneMessages ]_vars

\* a missing name, a whitespace-only phone and two blank fields, all refused
C13_Witness ==
  \E r1 \in Creates, r2 \in Creates, r3 \in Creates :
    /\ storeUp
    /\ req[r1].name = Undefined /\ req[r1].status = 400
    /\ req[r1].msgs = << MsgNameRequired >>
    /\ req[r2].phone = PhoneSpace /\ req[r2].name = Zoe /\ req[r2].status = 400
    /\ req[r3].name = Undefined /\ req[r3].phone = Empty /\ req[r3].status = 400
    /\ Len(req[r3].msgs) = 2

(***************************************************************************)
(* C14                                                                     *)
(***************************************************************************)
\* a query parameter that is absent or empty
MissingParam(v) == v = Undefined \/ v = Empty

\* the secret the server is configured with
ConfiguredSecret ==
  IF MissingParam(envVerifyToken) THEN DefaultVerifyToken ELSE envVerifyToken

HookMatches(h) == h.mode = Subscribe /\ h.token = ConfiguredSecret

HookEchoes(h) == h.status = 200 /\ h.body = h.challenge

\* C14 as stated: 200 with the challenge exactly when mode and token
\* match, 400 whenever mode, token or challenge is missing, 403 when all
\* three are there and mode or token does not match.
C14_Original ==
  \A i \in 1..Len(hooks) :
    LET h == hooks[i]
    IN  /\ HookEchoes(h) <=> HookMatches(h)
        /\ (MissingParam(h.mode) \/ MissingParam(h.token) \/ MissingParam(h.challenge))
             => h.status = 400
        /\ (/\ ~MissingParam(h.mode) /\ ~MissingParam(h.token) /\ ~MissingParam(h.challenge)
            /\ ~HookMatches(h)) => h.status = 403

\* C14: the webhook answers 200 exactly when hub.mode is 'subscribe' and
\* hub.verify_token is the configured secret, and then its body is the
\* challenge, or empty when hub.challenge is missing; it answers 400
\* exactly when hub.mode or hub.verify_token is missing or empty, and 403
\* when both are there and one of them does not match.
C14_WebhookVerification ==
  \A i \in 1..Len(hooks) :
    LET h == hooks[i]
    IN  /\ h.status = 200 <=> HookMatches(h)
        /\ h.status = 200 =>
             h.body = (IF h.challenge = Undefined THEN Empty ELSE h.challenge)
        /\ h.status = 400 <=> (MissingParam(h.mode) \/ MissingParam(h.token))
        /\ h.status = 403 <=>
             (~MissingParam(h.mode) /\ ~MissingParam(h.token) /\ ~HookMatches(h))

\* a verification without a challenge answered 200, and one refused
C14_Witness ==
  \E i \in 1..Len(hooks), j \in 1..Len(hooks) :
    /\ hooks[i].challenge = Undefined /\ hooks[i].status = 200
    /\ hooks[j].mode = Unsubscribe /\ hooks[j].status = 403

(***************************************************************************)
(* C15, C16                                                                *)
(***************************************************************************)
CredentialPresent == apiKey # Undefined /\ apiKey # Empty

\* how often generateContent was called for request g
CallsFor(g) == Cardinality({ i \in 1..Len(providerCalls) : providerCalls[i] = g })

BlankHeading(h) == h.t # "string" \/ ~NonBlank(h.s)

CallFailures == { "network", "quota", "malformed" }

\* C15: without a credential every content-suggestion request, whatever
\* its heading, fails as NotConfigured, 503 on the route and a rejected
\* promise in the client service, and the provider is never called.
C15_NotConfigured ==
  ~CredentialPresent =>
    /\ providerCalls = << >>
    /\ \A g \in GenReqs :
         gen[g].pc # "idle" =>
           /\ gen[g].pc = "done"
           /\ gen[g].via = "route" =>
                gen[g].status = 503 /\ gen[g].msg = MsgAiNotConfigured
           /\ gen[g].via = "service" =>
                gen[g].result = "rejected" /\ gen[g].msg = MsgKeyNotConfigured

\* no credential: a blank heading refused with 503, a service call rejected
C15_Witness ==
  \E g1 \in GenReqs, g2 \in GenReqs :
    /\ ~CredentialPresent
    /\ gen[g1].via = "route" /\ gen[g1].status = 503
    /\ gen[g1].heading = StringHeading(BlankName)
    /\ gen[g2].via = "service" /\ gen[g2].result = "rejected"

\* C16: with a credential, a request with a non-blank heading has the
\* provider called exactly once, from its arrival on; if the call fails,
\* by the network, the quota or a malformed response, the route answers
\* 500 with the one fixed message and the client service rejects with its
\* one fixed message; a blank heading on the route is answered 400 with no
\* call of the provider.
C16_GenerationFailed ==
  CredentialPresent =>
    \A g \in GenReqs :
      /\ (gen[g].pc # "idle" /\ ~BlankHeading(gen[g].heading)) => CallsFor(g) = 1
      /\ (gen[g].via = "route" /\ BlankHeading(gen[g].heading)) =>
           gen[g].pc = "done" /\ gen[g].status = 400 /\ CallsFor(g) = 0
      /\ (gen[g].via = "route" /\ gen[g].outcome \in CallFailures) =>
           gen[g].status = 500 /\ gen[g].msg = MsgGenerationFailed
      /\ (gen[g].via = "service" /\ gen[g].outcome \in CallFailures) =>
           gen[g].result = "rejected" /\ gen[g].msg = MsgServiceFailed
      /\ CallsFor(g) <= 1

\* two route requests failed in two ways, both answered alike after one call each
C16_Witness ==
  /\ CredentialPresent
  /\ gen[1].via = "route" /\ gen[1].outcome = "network" /\ gen[1].status = 500
  /\ gen[2].via = "route" /\ gen[2].outcome = "malformed" /\ gen[2].status = 500
  /\ providerCalls = << 1, 2 >>

(***************************************************************************)
(* C17                                                                     *)
(***************************************************************************)
\* the request's handler raises an exception: it has a message, and its
\* recipient list holds null
RaisesException(q) == (HasTextContent(q.content) \/ q.media) /\ q.json = NullEntry

GenericMessage == "An internal server error occurred. Please try again later."

\* C17: a bulk-send request is answered exactly once, with 200, 400 or
\* 500 and a message; once answered it is never answered again; a request
\* whose handler raises an exception is answered by the last-resort
\* handler with 500 and the fixed generic message, which is not the text
\* of the exception, and the requests after it are served as before.
C17_OneResponse ==
  [][ \A b \in BulkReqs :
        /\ bulk[b].pc = "done" => bulk'[b] = bulk[b]
        /\ (bulk[b].pc # "done" /\ bulk'[b].pc = "done") =>
             /\ bulk'[b].status \in { 200, 400, 500 }
             /\ bulk'[b].msg # ""
             /\ bulk'[b].status = 500 <=> RaisesException(bulk'[b])
             /\ RaisesException(bulk'[b]) =>
                  /\ bulk[b].pc = "idle"
                  /\ bulk'[b].msg = GenericMessage
                  /\ bulk'[b].msg # TypeErrorNull.message
             /\ (bulk'[b].json = OneRecipient /\ ~NoMessage(b)') => bulk'[b].status = 200
      ]_vars

\* a request that raised an exception answered 500, the next one served
C17_Witness ==
  /\ RaisesException(bulk[1]) /\ bulk[1].status = 500
  /\ bulk[2].pc = "done" /\ bulk[2].status = 200

(***************************************************************************)
(* C19                                                                     *)
(***************************************************************************)
\* the request has passed the checks of the route: its timer is set, or
\* it was answered 200
Accepted(b) == bulk[b].pc = "timer" \/ (BulkDone(b) /\ bulk[b].status = 200)

\* the recipients a request text lists, in its order
Listed(json) ==
  IF json = OneRecipient THEN << Recipient1 >>
  ELSE IF json = TwoRecipients THEN << Recipient1, Recipient2 >>
  ELSE << >>

\* C19: for an accepted bulk-send request the dispatch has handled, by
\* the time the timer of the response is set, one entry for each entry
\* of the request's list; for a list of contact records these are the
\* request's recipients, each once and in the order of the request, and
\* none of them comes from anywhere else.
C19_DispatchInOrder ==
  \A b \in BulkReqs :
    Accepted(b) =>
      /\ Len(bulk[b].sent) = EntryCount(bulk[b].json)
      /\ Len(bulk[b].sent) = bulk[b].count
      /\ bulk[b].json \in { OneRecipient, TwoRecipients } =>
           bulk[b].sent = Listed(bulk[b].json)

\* two recipients dispatched in order while the response is still to come
C19_Witness ==
  \E b \in BulkReqs :
    /\ bulk[b].pc = "timer"
    /\ bulk[b].json = TwoRecipients
    /\ bulk[b].sent = << Recipient1, Recipient2 >>

(***************************************************************************)
(* C20                                                                     *)
(***************************************************************************)
InFlight == { a \in 1..Len(attempts) : attempts[a] = "pending" }

Settled(c) == callers[c].pc = "done"

\* C20: at most one connection attempt is in flight; a caller that
\* arrives while one is pending waits on that attempt and starts none;
\* once a connection is cached a call returns it and starts no attempt;
\* when the continuations of a failed attempt have run, every caller
\* that waited on it has the error and the cache holds no failed
\* attempt, so that the next call starts a new one; and the cached
\* attempt a failing caller clears is the failed one it waited on.
C20_OneAttempt ==
  [][ /\ Cardinality(InFlight') <= 1
      /\ \A c \in Callers :
           (callers[c].pc = "idle" /\ callers'[c].pc # "idle") =>
             /\ InFlight # {} =>
                  /\ attempts' = attempts
                  /\ callers'[c].pc = "awaiting" /\ callers'[c].awaits \in InFlight
             /\ cachedConn =>
                  /\ attempts' = attempts
                  /\ callers'[c].pc = "done" /\ callers'[c].result = "conn"
             /\ (~cachedConn /\ InFlight = {} /\ mongoUri /\ microtasks = << >>) =>
                  /\ Len(attempts') = Len(attempts) + 1
                  /\ callers'[c].awaits = Len(attempts')
                  /\ InFlight' = { Len(attempts') }
      /\ microtasks' = << >> =>
           /\ \A c \in Callers :
                (callers'[c].awaits # NoAttempt
                   /\ attempts'[callers'[c].awaits] = "rejected")
                => callers'[c].pc = "done" /\ callers'[c].result = "error"
           /\ cachedPromise' # NoAttempt => attempts'[cachedPromise'] # "rejected"
      /\ (cachedPromise # NoAttempt /\ cachedPromise' = NoAttempt) =>
           /\ attempts[cachedPromise] = "rejected"
           /\ \E c \in Callers :
                /\ ~Settled(c) /\ Settled(c)'
                /\ callers[c].awaits = cachedPromise
    ]_vars

\* two callers shared a failed attempt and both got the error; the third
\* caller started the second attempt, which is in flight
C20_Witness ==
  /\ callers[1].awaits = 1 /\ callers[2].awaits = 1
  /\ callers[1].result = "error" /\ callers[2].result = "error"
  /\ callers[3].awaits = 2 /\ callers[3].started
  /\ cachedPromise = 2 /\ InFlight = { 2 }

(***************************************************************************)
(* C18                                                                     *)
(***************************************************************************)
\* the initial fetch has failed and its error is on the page
FetchFailed == fetchPc = "done" /\ ~isLoading /\ error # NoError

\* C18: once the initial fetch of the dashboard has failed, the page
\* shows the error and offers a retry action.
C18_RetryOffered == FetchFailed => RetryOffered

(***************************************************************************)
(* C21                                                                     *)
(***************************************************************************)
\* the initial fetch has succeeded and no add or delete call is pending
DashboardQuiet ==
  /\ fetchPc = "done" /\ error = NoError
  /\ \A o \in Ops : ops[o].pc \in { "idle", "done" }

ShownIds == { shown[i] : i \in 1..Len(shown) }

\* C21: once every add and delete call of the dashboard has completed,
\* the list on the page holds exactly the contacts of the store, each
\* once.
C21_DisplayMatchesStore ==
  DashboardQuiet =>
    /\ ShownIds = server
    /\ Len(shown) = Cardinality(server)

(***************************************************************************)
(* C22                                                                     *)
(***************************************************************************)
\* the status shown was set by a send attempt that went to the backend
StatusOfSend == sendStatus # NoStatus /\ sends[sendStatus.by].type # "invalid"

\* C22: a timer that fires while the status of a send attempt is shown
\* clears the status of the attempt that started it, never the status a
\* later attempt has set.
C22_TimerClearsOwnStatus ==
  [][ (timers # << >> /\ timers' = Tail(timers) /\ StatusOfSend)
        => sendStatus.by = Head(timers) ]_vars

(***************************************************************************)
(* C23                                                                     *)
(***************************************************************************)
\* the store messages of the three contact routes
StoreUnavailableAnswers == { << MsgCreateFailed >>, << MsgListFailed >>, << MsgDeleteFailed >> }

\* the answer the bulk-send route owes a request, whatever the store
BulkAnswer(q) ==
  IF q.content = Undefined /\ ~q.media THEN 400
  ELSE IF q.json = NullEntry THEN 500
  ELSE 200

\* the answer the webhook owes a query, whatever the store
HookAnswer(h) ==
  IF MissingParam(h.mode) \/ MissingParam(h.token) THEN 400
  ELSE IF HookMatches(h) THEN 200
  ELSE 403

\* the answer the content-suggestion route owes, whatever the store
GenAnswer(g) ==
  IF BlankHeading(g.heading) THEN 400
  ELSE IF g.outcome \in CallFailures THEN 500
  ELSE 200

\* the store is out of reach: no connection could be made, or the
\* connection made has been lost
Unreachable == ~storeUp \/ storeLost

\* the input of a contact request is turned down before any store command
TurnedDownByInput(q) ==
  \/ q.op = "delete" /\ q.id = BadId
  \/ q.op = "create" /\ (BlankField(q.name) \/ BlankField(q.phone) \/ ~E164Shape(q.phone))

OtherRoutesByInput ==
  /\ \A b \in BulkReqs :
       (bulk[b].pc # "done" /\ bulk'[b].pc = "done") =>
         bulk'[b].status = BulkAnswer(bulk'[b])
  /\ Len(hooks') > Len(hooks) =>
       hooks'[Len(hooks')].status = HookAnswer(hooks'[Len(hooks')])
  /\ \A g \in GenReqs :
       (gen[g].pc # "done" /\ gen'[g].pc = "done") =>
         gen'[g].status = GenAnswer(gen'[g])

\* C23 (as stated): with the store out of reach every contact request,
\* list, create or delete and whatever its input, ends with 500 and the
\* route's store message, and the stored contacts never change; the
\* bulk-send, webhook and content-suggestion routes answer each request
\* by its input alone, the same with and without the store.
C23_Original ==
  [][ /\ Unreachable => (contacts' = contacts /\ nextId' = nextId)
      /\ \A r \in Reqs :
           (Unreachable /\ Completes(r)) =>
             /\ req'[r].status = 500
             /\ req'[r].msgs \in StoreUnavailableAnswers
      /\ OtherRoutesByInput
    ]_vars

\* C23 (amended): when connectToDatabase fails, the connection string
\* absent or no connection made, every contact request, whatever its
\* input, is answered 500 on arrival with the route's store message; when
\* a connection that was made has been lost, a delete with a malformed id
\* and a create with a blank or ill-formed field are answered 400 on
\* arrival as with a reachable store, and every other contact request
\* ends with 500 and the route's store message; in both cases the stored
\* contacts never change, and the bulk-send, webhook and
\* content-suggestion routes answer each request by its input alone.
C23_StoreUnavailable ==
  [][ /\ Unreachable => (contacts' = contacts /\ nextId' = nextId)
      /\ \A r \in Reqs :
           /\ (~storeUp /\ Completes(r)) =>
                /\ req[r].pc = "idle"
                /\ req'[r].status = 500
                /\ req'[r].msgs \in StoreUnavailableAnswers
           /\ (storeLost /\ Completes(r)) =>
                IF TurnedDownByInput(req'[r])
                THEN req[r].pc = "idle" /\ req'[r].status = 400
                ELSE /\ req'[r].status = 500
                     /\ req'[r].msgs \in StoreUnavailableAnswers
      /\ OtherRoutesByInput
    ]_vars

\* a connection was made and lost: a list ended with 500, and after it a
\* delete with a malformed id was answered 400, a create with an invalid
\* phone 400 and a bulk-send 200
C23_Witness ==
  /\ storeLost
  /\ \E r1 \in Lists, r2 \in Deletes, r3 \in Creates :
       /\ req[r1].status = 500
       /\ req[r2].id = BadId /\ req[r2].status = 400
       /\ req[r1].doneAt < req[r2].issued
       /\ req[r3].phone = PhoneNoPlus /\ req[r3].status = 400
       /\ req[r1].doneAt < req[r3].issued

====
